---- MODULE Spec2Model ----
(***************************************************************************)
(* Model of shiny/ui/_input_date.py: the date-picker markup builders       *)
(* input_date and input_date_range, the shared _date_input_tag and the     *)
(* date normalizer _as_date_attr.                                          *)
(*                                                                         *)
(* Date strings are sequences of one-character strings, so that parsing    *)
(* (date.fromisoformat) and formatting (str(date)) are computed character  *)
(* by character.  A native date is a record [year, month, day].            *)
(***************************************************************************)
EXTENDS Integers, Sequences, FiniteSets, TLC

VARIABLES
    today,          \* date.today(): the current local date
    ns,             \* the current module namespace used by resolve_id
    isoAny,         \* TRUE: date.fromisoformat of Python >= 3.11; FALSE: of 3.7 - 3.10
    restoreCtx,     \* the bookmark restore context: saved input values by resolved id
    depsDeclared,   \* the asset declaration service has declared the bundle
    call,           \* the call whose outcome the caller holds ([op |-> "none"]: no call)
    outcome,        \* "none" | "ok" | "ValueError": how that call ended
    result,         \* what that call returned (NoResult when it raised)
    restoreLog,     \* the restore_input invocations of that call
    depsCalls       \* the number of datepicker_deps invocations of that call

vars == <<today, ns, isoAny, restoreCtx, depsDeclared,
          call, outcome, result, restoreLog, depsCalls>>

(* Values are tagged records: Python's None, a datetime.date, a str given  *)
(* by its characters, a str given as a whole (Text: configuration strings  *)
(* that are only passed through), an int, a list, and the marker of a      *)
(* raised ValueError.                                                      *)
None == [kind |-> "None"]
ValueError == [kind |-> "ValueError"]
Date(y, m, d) == [kind |-> "date", year |-> y, month |-> m, day |-> d]
Str(s) == [kind |-> "str", chars |-> s]
Text(t) == [kind |-> "text", text |-> t]
PyInt(n) == [kind |-> "int", val |-> n]
List(items) == [kind |-> "list", items |-> items]

IsNone(x) == x.kind = "None"
IsDate(x) == x.kind = "date"
IsStr(x) == x.kind = "str"
IsList(x) == x.kind = "list"
Raised(x) == x.kind = "ValueError"

----------------------------------------------------------------------------
(* datetime.date: the calendar, str(date) and date.fromisoformat           *)

MINYEAR == 1
MAXYEAR == 9999

Digits == <<"0", "1", "2", "3", "4", "5", "6", "7", "8", "9">>

IsDigit(c) == \E i \in 1..10 : Digits[i] = c

DigitVal(c) == (CHOOSE i \in 1..10 : Digits[i] = c) - 1

IsLeap(y) == y % 4 = 0 /\ (y % 100 # 0 \/ y % 400 = 0)

DaysInMonth(y, m) ==
    IF m = 2 THEN (IF IsLeap(y) THEN 29 ELSE 28)
    ELSE IF m \in {4, 6, 9, 11} THEN 30 ELSE 31

RECURSIVE DaysBeforeMonth(_, _)
DaysBeforeMonth(y, m) ==
    IF m <= 1 THEN 0 ELSE DaysBeforeMonth(y, m - 1) + DaysInMonth(y, m - 1)

DaysBeforeYear(y) ==
    (y - 1) * 365 + ((y - 1) \div 4) - ((y - 1) \div 100) + ((y - 1) \div 400)

Ymd2Ord(y, m, d) == DaysBeforeYear(y) + DaysBeforeMonth(y, m) + d

\* the proleptic Gregorian ordinal back to (year, month, day): the 400-, 100-
\* and 4-year cycles and the single years before the day, then the month
Ord2Ymd(ord) ==
    LET n400 == (ord - 1) \div 146097
        r400 == (ord - 1) % 146097
        n100 == r400 \div 36524
        r100 == r400 % 36524
        n4 == r100 \div 1461
        r4 == r100 % 1461
        n1 == r4 \div 365
        n == r4 % 365
        year == n400 * 400 + 1 + n100 * 100 + n4 * 4 + n1
    IN  IF n1 = 4 \/ n100 = 4 THEN Date(year - 1, 12, 31)
        ELSE LET m == CHOOSE mm \in 1..12 :
                          /\ DaysBeforeMonth(year, mm) <= n
                          /\ n < DaysBeforeMonth(year, mm) + DaysInMonth(year, mm)
             IN  Date(year, m, n - DaysBeforeMonth(year, m) + 1)

\* date(year, month, day): the constructor's range checks
NewDate(y, m, d) ==
    IF /\ MINYEAR <= y /\ y <= MAXYEAR
       /\ 1 <= m /\ m <= 12
       /\ 1 <= d /\ d <= DaysInMonth(y, m)
    THEN Date(y, m, d)
    ELSE ValueError

\* "%d" of a natural number
RECURSIVE NatStr(_)
NatStr(n) == IF n < 10 THEN <<Digits[n + 1]>> ELSE NatStr(n \div 10) \o <<Digits[(n % 10) + 1]>>

\* "%04d" and "%02d"
Pad4(n) == <<Digits[((n \div 1000) % 10) + 1], Digits[((n \div 100) % 10) + 1],
             Digits[((n \div 10) % 10) + 1], Digits[(n % 10) + 1]>>

Pad2(n) == <<Digits[((n \div 10) % 10) + 1], Digits[(n % 10) + 1]>>

\* str(date) with "%d-%d-%d" for the format
DateStr_unpadded(d) ==
    Str(NatStr(d.year) \o <<"-">> \o NatStr(d.month) \o <<"-">> \o NatStr(d.day))

\* str(date): "%04d-%02d-%02d"
DateStr(d) == Str(Pad4(d.year) \o <<"-">> \o Pad2(d.month) \o <<"-">> \o Pad2(d.day))

\* the characters s[pos .. pos+n-1] are all there and all digits (positions from 1)
HasDigits(s, pos, n) ==
    /\ pos + n - 1 <= Len(s)
    /\ \A i \in pos..(pos + n - 1) : IsDigit(s[i])

RECURSIVE ParseDigits(_, _, _)
ParseDigits(s, pos, n) ==
    IF n = 0 THEN 0
    ELSE ParseDigits(s, pos, n - 1) * 10 + DigitVal(s[pos + n - 1])

CharAt(s, pos) == IF pos <= Len(s) THEN s[pos] ELSE ""

\* the ordinal of the Monday that starts ISO week 1 of the year
IsoWeek1Monday(y) ==
    LET firstday == Ymd2Ord(y, 1, 1)
        firstweekday == (firstday + 6) % 7
        week1monday == firstday - firstweekday
    IN  IF firstweekday > 3 THEN week1monday + 7 ELSE week1monday

IsoWeekToGregorian(y, week, day) ==
    LET first_weekday == Ymd2Ord(y, 1, 1) % 7
        week_ok == \/ (0 < week /\ week < 53)
                   \/ (week = 53 /\ (first_weekday = 4 \/ (first_weekday = 3 /\ IsLeap(y))))
    IN  IF ~(MINYEAR <= y /\ y <= MAXYEAR) \/ ~week_ok \/ ~(0 < day /\ day < 8)
        THEN ValueError
        ELSE LET g == Ord2Ymd(IsoWeek1Monday(y) + (week - 1) * 7 + (day - 1))
             IN  NewDate(g.year, g.month, g.day)

\* Python 3.7 - 3.10: exactly YYYY-MM-DD
FromIsoStrict(s) ==
    IF /\ Len(s) = 10
       /\ HasDigits(s, 1, 4) /\ s[5] = "-"
       /\ HasDigits(s, 6, 2) /\ s[8] = "-"
       /\ HasDigits(s, 9, 2)
    THEN NewDate(ParseDigits(s, 1, 4), ParseDigits(s, 6, 2), ParseDigits(s, 9, 2))
    ELSE ValueError

\* Python >= 3.11: a string of length 7, 8 or 10 read from the left as
\* YYYY[-]MM[-]DD or YYYY[-]Www[[-]D]; what follows the last field is not read
FromIsoAny(s) ==
    IF ~(Len(s) \in {7, 8, 10}) \/ ~HasDigits(s, 1, 4) THEN ValueError
    ELSE
    LET year == ParseDigits(s, 1, 4)
        has_sep == (s[5] = "-")
        pos == IF has_sep THEN 6 ELSE 5
    IN  IF CharAt(s, pos) = "W"
        THEN IF ~HasDigits(s, pos + 1, 2) THEN ValueError
             ELSE
             LET weekno == ParseDigits(s, pos + 1, 2)
                 p2 == pos + 3
             IN  IF Len(s) < p2 THEN IsoWeekToGregorian(year, weekno, 1)
                 ELSE IF (s[p2] = "-") # has_sep THEN ValueError
                 ELSE LET p3 == IF has_sep THEN p2 + 1 ELSE p2
                      IN  IF ~HasDigits(s, p3, 1) THEN ValueError
                          ELSE IsoWeekToGregorian(year, weekno, ParseDigits(s, p3, 1))
        ELSE IF ~HasDigits(s, pos, 2) THEN ValueError
             ELSE
             LET month == ParseDigits(s, pos, 2)
                 p2 == pos + 2
             IN  IF (CharAt(s, p2) = "-") # has_sep THEN ValueError
                 ELSE LET p3 == IF has_sep THEN p2 + 1 ELSE p2
                      IN  IF ~HasDigits(s, p3, 2) THEN ValueError
                          ELSE NewDate(year, month, ParseDigits(s, p3, 2))

\* date.fromisoformat(x) of the interpreter in use
date_fromisoformat(x) == IF isoAny THEN FromIsoAny(x.chars) ELSE FromIsoStrict(x.chars)

----------------------------------------------------------------------------
(* _as_date_attr                                                           *)

\* without the test for None: date.fromisoformat(None) raises
as_date_attr_none_raises(x) ==
    IF IsNone(x) THEN ValueError
    ELSE IF IsDate(x) THEN DateStr(x)
    ELSE LET d == date_fromisoformat(x)
         IN  IF Raised(d) THEN ValueError ELSE DateStr(d)

\* str(x) of whatever is no str, None included
as_date_attr_str_none(x) ==
    IF IsNone(x) THEN Str(<<"N", "o", "n", "e">>)
    ELSE IF IsDate(x) THEN DateStr(x)
    ELSE LET d == date_fromisoformat(x)
         IN  IF Raised(d) THEN ValueError ELSE DateStr(d)

as_date_attr(x) ==
    IF IsNone(x) THEN None
    ELSE IF IsDate(x) THEN DateStr(x)
    ELSE LET d == date_fromisoformat(x)
         IN  IF Raised(d) THEN ValueError ELSE DateStr(d)

----------------------------------------------------------------------------
(* json.dumps, as far as lists of str or int and None go                   *)

IntStr(n) == IF n < 0 THEN <<"-">> \o NatStr(0 - n) ELSE NatStr(n)

\* a str between double quotes, with " and \ escaped
RECURSIVE JsonEscape(_)
JsonEscape(s) ==
    IF s = <<>> THEN <<>>
    ELSE (IF Head(s) \in {"\"", "\\"} THEN <<"\\", Head(s)>> ELSE <<Head(s)>>)
         \o JsonEscape(Tail(s))

JsonItem(x) == IF x.kind = "int" THEN IntStr(x.val) ELSE <<"\"">> \o JsonEscape(x.chars) \o <<"\"">>

\* the items, joined by the default item separator ", "
RECURSIVE JsonItems(_)
JsonItems(items) ==
    IF items = <<>> THEN <<>>
    ELSE IF Len(items) = 1 THEN JsonItem(items[1])
    ELSE JsonItem(Head(items)) \o <<",", " ">> \o JsonItems(Tail(items))

\* None left as None, so that the attribute is dropped
json_dumps_none(x) ==
    IF IsNone(x) THEN None
    ELSE Str(<<"[">> \o JsonItems(x.items) \o <<"]">>)

json_dumps(x) ==
    IF IsNone(x) THEN Str(<<"n", "u", "l", "l">>)
    ELSE Str(<<"[">> \o JsonItems(x.items) \o <<"]">>)

----------------------------------------------------------------------------
(* htmltools: a tag keeps the attributes whose value is not None           *)

TagAttrs(kv) ==
    LET present == {i \in 1..Len(kv) : ~IsNone(kv[i][2])}
        names == {kv[i][1] : i \in present}
    IN  [n \in names |-> kv[CHOOSE i \in present : kv[i][1] = n][2]]

Tag(name, kv, children) ==
    [kind |-> "tag", name |-> name, attrs |-> TagAttrs(kv), children |-> children]

\* css(width=width): None when no property is given
css(width) == IF IsNone(width) THEN None ELSE Text("width:" \o width.text \o ";")

----------------------------------------------------------------------------
(* The collaborators: id resolution, bookmark restore, label, assets       *)

\* resolve_id(id): the id qualified by the current module namespace
resolve_id(id) == IF ns = "" THEN id ELSE ns \o "-" \o id

NotAvailable == [kind |-> "NotAvailable"]

SameShape(a, b) == IsList(a) = IsList(b)

\* restore_input(resolved_id, default) in the restore context ctx: the saved
\* value of that id, else default
restore_input(ctx, resolved_id, default) ==
    IF /\ resolved_id \in DOMAIN ctx
       /\ ctx[resolved_id].kind # "NotAvailable"
       /\ SameShape(ctx[resolved_id], default)
    THEN ctx[resolved_id]
    ELSE default

shiny_input_label(id, label) ==
    Tag("label", << <<"class", Text("control-label")>>,
                    <<"id", Text(id \o "-label")>>,
                    <<"for", Text(id)>> >>, <<label>>)

\* datepicker_deps(): the date-picker asset fragment
datepicker_deps == [kind |-> "html_dependency", name |-> "bootstrap-datepicker"]

----------------------------------------------------------------------------
(* _date_input_tag                                                         *)

\* the title made of the language
date_input_tag_title(id, value, min, max, format, startview, weekstart, language, autoclose, kwargs) ==
    LET data_min_date == as_date_attr(min)
        data_max_date == as_date_attr(max)
        data_initial_date == as_date_attr(value)
    IN  IF Raised(data_min_date) \/ Raised(data_max_date) \/ Raised(data_initial_date)
        THEN ValueError
        ELSE Tag("input",
                 << <<"class", Text("form-control")>>,
                    <<"type", Text("text")>>,
                    <<"aria-labelledby", Text(id \o "-label")>>,
                    <<"title", Text("Date format: " \o language)>>,
                    <<"data-date-language", Text(language)>>,
                    <<"data-date-week-start", Text(ToString(weekstart))>>,
                    <<"data-date-format", Text(format)>>,
                    <<"data-date-start-view", Text(startview)>>,
                    <<"data-min-date", data_min_date>>,
                    <<"data-max-date", data_max_date>>,
                    <<"data-initial-date", data_initial_date>>,
                    <<"data-date-autoclose", Text(IF autoclose THEN "true" ELSE "false")>> >>
                 \o kwargs,
                 <<datepicker_deps>>)

\* the assets embedded only when they were not declared before
date_input_tag_once(id, value, min, max, format, startview, weekstart, language, autoclose, kwargs) ==
    LET data_min_date == as_date_attr(min)
        data_max_date == as_date_attr(max)
        data_initial_date == as_date_attr(value)
    IN  IF Raised(data_min_date) \/ Raised(data_max_date) \/ Raised(data_initial_date)
        THEN ValueError
        ELSE Tag("input",
                 << <<"class", Text("form-control")>>,
                    <<"type", Text("text")>>,
                    <<"aria-labelledby", Text(id \o "-label")>>,
                    <<"title", Text("Date format: " \o format)>>,
                    <<"data-date-language", Text(language)>>,
                    <<"data-date-week-start", Text(ToString(weekstart))>>,
                    <<"data-date-format", Text(format)>>,
                    <<"data-date-start-view", Text(startview)>>,
                    <<"data-min-date", data_min_date>>,
                    <<"data-max-date", data_max_date>>,
                    <<"data-initial-date", data_initial_date>>,
                    <<"data-date-autoclose", Text(IF autoclose THEN "true" ELSE "false")>> >>
                 \o kwargs,
                 IF depsDeclared THEN <<>> ELSE <<datepicker_deps>>)

date_input_tag(id, value, min, max, format, startview, weekstart, language, autoclose, kwargs) ==
    LET data_min_date == as_date_attr(min)
        data_max_date == as_date_attr(max)
        data_initial_date == as_date_attr(value)
    IN  IF Raised(data_min_date) \/ Raised(data_max_date) \/ Raised(data_initial_date)
        THEN ValueError
        ELSE Tag("input",
                 << <<"class", Text("form-control")>>,
                    <<"type", Text("text")>>,
                    <<"aria-labelledby", Text(id \o "-label")>>,
                    <<"title", Text("Date format: " \o format)>>,
                    <<"data-date-language", Text(language)>>,
                    <<"data-date-week-start", Text(ToString(weekstart))>>,
                    <<"data-date-format", Text(format)>>,
                    <<"data-date-start-view", Text(startview)>>,
                    <<"data-min-date", data_min_date>>,
                    <<"data-max-date", data_max_date>>,
                    <<"data-initial-date", data_initial_date>>,
                    <<"data-date-autoclose", Text(IF autoclose THEN "true" ELSE "false")>> >>
                 \o kwargs,
                 <<datepicker_deps>>)

----------------------------------------------------------------------------
(* input_date and input_date_range: what a call returns and what it asks   *)
(* of its collaborators.  A raised ValueError leaves no result.            *)

NoResult == [kind |-> "NoResult"]

\* date.today() whatever value is
default_value_today(value) == today

\* value if value is not None else date.today()
default_value(value) == IF ~IsNone(value) THEN value ELSE today

default_start(start) == IF ~IsNone(start) THEN start ELSE today

default_end(end) == IF ~IsNone(end) THEN end ELSE today

\* restored_date_range[0] and restored_date_range[1]
start_value(restored_date_range) == restored_date_range.items[1]

\* restored_date_range[0] for the second input too
end_value_first(restored_date_range) == restored_date_range.items[1]

end_value(restored_date_range) == restored_date_range.items[2]

\* input_date(**a), the restore context being ctx
input_date_call(a, ctx) ==
    LET resolved_id == resolve_id(a.id)
        tag == date_input_tag(resolved_id,
                              restore_input(ctx, resolved_id, default_value(a.value)),
                              a.min, a.max, a.format, a.startview, a.weekstart,
                              a.language, a.autoclose,
                              << <<"data-date-dates-disabled", json_dumps(a.datesdisabled)>>,
                                 <<"data-date-days-of-week-disabled",
                                   json_dumps(a.daysofweekdisabled)>> >>)
    IN  [restoreLog |-> << [id |-> resolved_id, default |-> default_value(a.value)] >>,
         depsCalls |-> 1,
         result |->
            IF Raised(tag) THEN NoResult
            ELSE Tag("div",
                     << <<"id", Text(resolved_id)>>,
                        <<"class", Text("shiny-date-input form-group shiny-input-container")>>,
                        <<"style", css(a.width)>> >>,
                     <<shiny_input_label(resolved_id, a.label), tag>>)]

\* input_date_range(**a), the restore context being ctx
input_date_range_call(a, ctx) ==
    LET resolved_id == resolve_id(a.id)
        defaults == List(<<default_start(a.start), default_end(a.end)>>)
        restored_date_range == restore_input(ctx, resolved_id, defaults)
        tag1 == date_input_tag(resolved_id, start_value(restored_date_range),
                               a.min, a.max, a.format, a.startview, a.weekstart,
                               a.language, a.autoclose, <<>>)
        tag2 == date_input_tag(resolved_id, end_value(restored_date_range),
                               a.min, a.max, a.format, a.startview, a.weekstart,
                               a.language, a.autoclose, <<>>)
    IN  [restoreLog |-> << [id |-> resolved_id, default |-> defaults] >>,
         \* the second input is not built when the first one has raised
         depsCalls |-> IF Raised(tag1) THEN 1 ELSE 2,
         result |->
            IF Raised(tag1) \/ Raised(tag2) THEN NoResult
            ELSE Tag("div",
                     << <<"id", Text(resolved_id)>>,
                        <<"class", Text("shiny-date-range-input form-group shiny-input-container")>>,
                        <<"style", css(a.width)>> >>,
                     << shiny_input_label(resolved_id, a.label),
                        Tag("div",
                            << <<"class", Text("input-daterange input-group input-group-sm")>> >>,
                            << tag1,
                               Tag("span",
                                   << <<"class",
                                        Text("input-group-addon input-group-prepend input-group-append")>> >>,
                                   << Tag("span", << <<"class", Text("input-group-text")>> >>,
                                          <<Text(a.separator)>>) >>),
                               tag2 >>) >>)]

----------------------------------------------------------------------------
(* The inputs                                                              *)

\* the longest datesdisabled / daysofweekdisabled list
MaxListLen == 2
\* how many times the local date advances
MaxTicks == 1

FirstDay == Date(2024, 3, 14)

NextDay(d) == Ord2Ymd(Ymd2Ord(d.year, d.month, d.day) + 1)

\* the strings handed to _as_date_attr directly: ISO 8601 calendar dates in
\* extended and basic format, week dates, ordinal dates, and strings that
\* are no ISO 8601 date
AttrStrings ==
    {Str(<<"2", "0", "2", "4", "-", "0", "3", "-", "1", "5">>),
     Str(<<"2", "0", "2", "4", "-", "0", "2", "-", "2", "9">>),
     Str(<<"0", "9", "9", "9", "-", "0", "1", "-", "0", "5">>),
     Str(<<"2", "0", "2", "4", "0", "3", "1", "5">>),
     Str(<<"2", "0", "2", "4", "-", "W", "1", "1", "-", "5">>),
     Str(<<"2", "0", "2", "4", "W", "1", "1", "5">>),
     Str(<<"2", "0", "2", "4", "-", "W", "1", "1">>),
     Str(<<"2", "0", "2", "0", "-", "W", "5", "3", "-", "1">>),
     Str(<<"2", "0", "2", "4", "-", "0", "7", "5">>),
     Str(<<"2", "0", "2", "4", "0", "7", "5">>),
     Str(<<"2", "0", "2", "4", "-", "3", "-", "1", "5">>),
     Str(<<"2", "0", "2", "3", "-", "0", "2", "-", "2", "9">>),
     Str(<<"2", "0", "2", "4", "-", "1", "3", "-", "0", "1">>),
     Str(<<"2", "0", "2", "4", "-", "0", "2", "-", "3", "0">>),
     Str(<<"0", "0", "0", "0", "-", "0", "1", "-", "0", "1">>),
     Str(<<>>),
     Str(<<"b", "a", "d">>),
     Str(<<"2", "0", "2", "4", "-", "0", "3", "-", "1", "x">>),
     Str(<<"2", "0", "2", "4", "0", "3", "1", "5", "0", "0">>),
     Str(<<"2", "0", "2", "4", "W", "1", "1", "5", "0", "0">>),
     Str(<<"2", "0", "2", "4", "-", "W", "5", "3", "-", "1">>),
     Str(<<"2", "0", "2", "4", "-", "0", "3", "-", "1", "5", "T">>)}

AttrDates == {Date(2024, 3, 15), Date(999, 1, 5), Date(2024, 2, 29)}

\* value, start and end of the builders
ValueArgs == {None, Date(2024, 3, 15), Str(<<"2", "0", "2", "4", "-", "0", "1", "-", "3", "1">>), Str(<<"2", "0", "2", "4", "0", "3", "1", "5", "0", "0">>)}
StartArgs == {None, Date(2024, 3, 15), Str(<<"2", "0", "2", "4", "-", "0", "2", "-", "3", "0">>)}
EndArgs == {None, Str(<<"2", "0", "2", "4", "-", "0", "1", "-", "3", "1">>), Str(<<"2", "0", "2", "4", "-", "0", "2", "-", "3", "0">>)}
MinArgs == {None, Date(999, 1, 5), Str(<<"2", "0", "2", "4", "-", "0", "2", "-", "3", "0">>)}
MaxArgs == {None, Str(<<"2", "0", "2", "4", "-", "1", "2", "-", "3", "1">>), Str(<<"2", "0", "2", "4", "-", "0", "2", "-", "3", "0">>)}

\* min and max: a string that is no date comes with the other bound absent
MinMaxArgs ==
    {p \in [min : MinArgs, max : MaxArgs] :
        \/ IsNone(p.min) \/ IsNone(p.max)
        \/ (IsDate(p.min) /\ ~Raised(FromIsoStrict(p.max.chars)))}

Ids == {"d"}
Namespaces == {"", "mod"}
Keys == {"d", "mod-d"}

\* the values a restore context holds for an input
SavedValues == {Date(2023, 12, 25), Str(<<"2", "0", "2", "4", "-", "0", "2", "-", "3", "0">>), Str(<<"2", "0", "2", "4", "0", "3", "1", "5", "0", "0">>)}
SavedRangeItems == {Date(2023, 12, 25), Str(<<"2", "0", "2", "3", "-", "1", "2", "-", "3", "1">>)}
SavedRanges == {List(<<x, y>>) : x \in SavedRangeItems, y \in SavedRangeItems} \ {List(<<x, x>>) : x \in SavedRangeItems}

SeqsUpTo(S, n) == UNION {[1..k -> S] : k \in 0..n}

DatesDisabledArgs ==
    {None} \cup {List(l) : l \in SeqsUpTo({Str(<<"2", "0", "2", "4", "-", "0", "3", "-", "1", "5">>), Str(<<"a", "\"", "b">>)}, MaxListLen)}
DaysOfWeekDisabledArgs ==
    {None} \cup {List(l) : l \in SeqsUpTo({PyInt(0), PyInt(6)}, MaxListLen)}

\* the defaults of the signatures
DefaultConfig ==
    [format |-> "yyyy-mm-dd", startview |-> "month", weekstart |-> 0, language |-> "en",
     width |-> None, autoclose |-> TRUE]

\* the configurations: the defaults, and the defaults with one argument given
Configs ==
    {DefaultConfig}
    \cup {[DefaultConfig EXCEPT !.format = "mm/dd/yy"],
          [DefaultConfig EXCEPT !.startview = "decade"],
          [DefaultConfig EXCEPT !.weekstart = 1],
          [DefaultConfig EXCEPT !.language = "fr"],
          [DefaultConfig EXCEPT !.width = Text("100px")],
          [DefaultConfig EXCEPT !.autoclose = FALSE]}

NoneDisabled == [datesdisabled |-> None, daysofweekdisabled |-> None]

\* input_date: a configuration with no list, or the defaults with one list
DateConfigs ==
    {c @@ NoneDisabled : c \in Configs}
    \cup {DefaultConfig @@ [NoneDisabled EXCEPT !.datesdisabled = dd] :
             dd \in DatesDisabledArgs}
    \cup {DefaultConfig @@ [NoneDisabled EXCEPT !.daysofweekdisabled = dw] :
             dw \in DaysOfWeekDisabledArgs}

\* input_date_range: a configuration, or the defaults with another separator
RangeConfigs ==
    {c @@ [separator |-> " to "] : c \in Configs}
    \cup {DefaultConfig @@ [separator |-> "-"]}

\* min and max that every configuration is called with; the other ones go
\* with the default configuration
PlainMinMaxArgs == {p \in MinMaxArgs : IsNone(p.min) = IsNone(p.max)}

InputDateArgs ==
    {[op |-> "input_date", id |-> i, label |-> Text("Date"),
      value |-> v, min |-> mm.min, max |-> mm.max] @@ c :
        i \in Ids, v \in ValueArgs, mm \in PlainMinMaxArgs, c \in DateConfigs}
    \cup {[op |-> "input_date", id |-> i, label |-> Text("Date"),
           value |-> v, min |-> mm.min, max |-> mm.max] @@ DefaultConfig @@ NoneDisabled :
             i \in Ids, v \in ValueArgs, mm \in MinMaxArgs}

InputDateRangeArgs ==
    {[op |-> "input_date_range", id |-> i, label |-> Text("Range"),
      start |-> s, end |-> e, min |-> mm.min, max |-> mm.max] @@ c :
        i \in Ids, s \in StartArgs, e \in EndArgs, mm \in PlainMinMaxArgs, c \in RangeConfigs}
    \cup {[op |-> "input_date_range", id |-> i, label |-> Text("Range"),
           start |-> s, end |-> e, min |-> mm.min, max |-> mm.max]
             @@ DefaultConfig @@ [separator |-> " to "] :
             i \in Ids, s \in StartArgs, e \in EndArgs, mm \in MinMaxArgs}

----------------------------------------------------------------------------
(* The state machine                                                       *)

Init ==
    /\ today = FirstDay
    /\ ns = ""
    /\ isoAny \in BOOLEAN
    /\ restoreCtx = [k \in Keys |-> NotAvailable]
    /\ depsDeclared = FALSE
    /\ call = [op |-> "none"]
    /\ outcome = "none"
    /\ result = NoResult
    /\ restoreLog = <<>>
    /\ depsCalls = 0

\* no call is under way: the caller holds no outcome
Idle == call.op = "none"

Returned(r) ==
    /\ outcome' = IF r.result.kind = "NoResult" THEN "ValueError" ELSE "ok"
    /\ result' = r.result
    /\ restoreLog' = r.restoreLog
    /\ depsCalls' = r.depsCalls
    /\ depsDeclared' = (depsDeclared \/ r.depsCalls > 0)

\* a call of input_date
InputDate ==
    \E a \in InputDateArgs :
        /\ Idle
        /\ call' = a
        /\ Returned(input_date_call(a, restoreCtx))
        /\ UNCHANGED <<today, ns, isoAny, restoreCtx>>

\* a call of input_date_range
InputDateRange ==
    \E a \in InputDateRangeArgs :
        /\ Idle
        /\ call' = a
        /\ Returned(input_date_range_call(a, restoreCtx))
        /\ UNCHANGED <<today, ns, isoAny, restoreCtx>>

\* a call of _as_date_attr
AsDateAttr ==
    \E x \in {None} \cup AttrDates \cup AttrStrings :
        /\ Idle
        /\ call' = [op |-> "as_date_attr", x |-> x]
        /\ LET attr == as_date_attr(x)
           IN  Returned([result |-> IF Raised(attr) THEN NoResult ELSE attr,
                         restoreLog |-> <<>>, depsCalls |-> 0])
        /\ UNCHANGED <<today, ns, isoAny, restoreCtx>>

\* a session is restored from a bookmark that holds the value of one input
Bookmark ==
    \E key \in Keys, v \in SavedValues \cup SavedRanges :
        /\ Idle
        /\ restoreCtx' = [k \in Keys |-> IF k = key THEN v ELSE NotAvailable]
        /\ UNCHANGED <<today, ns, isoAny, depsDeclared, call, outcome, result,
                       restoreLog, depsCalls>>

\* a session without restored state
NoBookmark ==
    /\ Idle
    /\ restoreCtx' = [k \in Keys |-> NotAvailable]
    /\ UNCHANGED <<today, ns, isoAny, depsDeclared, call, outcome, result,
                   restoreLog, depsCalls>>

\* midnight passes
Tick ==
    /\ Idle
    /\ Ymd2Ord(today.year, today.month, today.day)
         < Ymd2Ord(FirstDay.year, FirstDay.month, FirstDay.day) + MaxTicks
    /\ today' = NextDay(today)
    /\ UNCHANGED <<ns, isoAny, restoreCtx, depsDeclared, call, outcome, result,
                   restoreLog, depsCalls>>

\* the builders are called inside or outside a module
SetNamespace ==
    \E n \in Namespaces :
        /\ Idle
        /\ ns' = n
        /\ UNCHANGED <<today, isoAny, restoreCtx, depsDeclared, call, outcome, result,
                       restoreLog, depsCalls>>

\* the caller takes the outcome of the call; the next call can follow
Done ==
    /\ ~Idle
    /\ call' = [op |-> "none"]
    /\ outcome' = "none"
    /\ result' = NoResult
    /\ restoreLog' = <<>>
    /\ depsCalls' = 0
    /\ UNCHANGED <<today, ns, isoAny, restoreCtx, depsDeclared>>

Next ==
    \/ InputDate
    \/ InputDateRange
    \/ AsDateAttr
    \/ Bookmark
    \/ NoBookmark
    \/ Tick
    \/ SetNamespace
    \/ Done

Spec == Init /\ [][Next]_vars

----------------------------------------------------------------------------
(* What the properties speak of                                            *)

IsBuilderCall == call.op \in {"input_date", "input_date_range"}

\* the input elements of a returned markup tree, in document order
InputsOf(r) ==
    IF call.op = "input_date" THEN <<r.children[2]>>
    ELSE <<r.children[2].children[1], r.children[2].children[3]>>

HasAttr(tag, n) == n \in DOMAIN tag.attrs

\* the value the restore service gave back to the call
Restored == restore_input(restoreCtx, restoreLog[1].id, restoreLog[1].default)

\* the date arguments of the call
DateFields ==
    IF call.op = "input_date" THEN <<call.value, call.min, call.max>>
    ELSE <<call.start, call.end, call.min, call.max>>

AllDigits(s, from, to) == \A i \in from..to : IsDigit(s[i])

CalendarDay(y, m, d) == 1 <= m /\ m <= 12 /\ 1 <= d /\ d <= DaysInMonth(y, m)

\* the canonical form yyyy-mm-dd of a date of the years 0001 to 9999
IsCanonicalDate(s) ==
    /\ Len(s) = 10
    /\ AllDigits(s, 1, 4) /\ s[5] = "-" /\ AllDigits(s, 6, 7) /\ s[8] = "-"
    /\ AllDigits(s, 9, 10)
    /\ ParseDigits(s, 1, 4) >= 1
    /\ CalendarDay(ParseDigits(s, 1, 4), ParseDigits(s, 6, 2), ParseDigits(s, 9, 2))

\* the ISO weeks of a year: 53 when it starts on a Thursday, or is a leap
\* year that starts on a Wednesday
WeeksInYear(y) ==
    LET jan1 == (Ymd2Ord(y, 1, 1) + 6) % 7
    IN  IF jan1 = 3 \/ (jan1 = 2 /\ IsLeap(y)) THEN 53 ELSE 52

WeekOk(y, w) == 1 <= w /\ w <= WeeksInYear(y)

OrdinalOk(y, n) == 1 <= n /\ n <= (IF IsLeap(y) THEN 366 ELSE 365)

\* a complete ISO 8601 date: a calendar date, a week date (with or without
\* the day of the week) or an ordinal date, in extended or basic format
IsIso8601Date(s) ==
    /\ Len(s) \in {7, 8, 10}
    /\ AllDigits(s, 1, 4)
    /\ LET y == ParseDigits(s, 1, 4)
       IN  \/ /\ Len(s) = 10 /\ s[5] = "-" /\ AllDigits(s, 6, 7) /\ s[8] = "-"
              /\ AllDigits(s, 9, 10)
              /\ CalendarDay(y, ParseDigits(s, 6, 2), ParseDigits(s, 9, 2))
           \/ /\ Len(s) = 8 /\ AllDigits(s, 5, 8)
              /\ CalendarDay(y, ParseDigits(s, 5, 2), ParseDigits(s, 7, 2))
           \/ /\ Len(s) \in {8, 10} /\ s[5] = "-" /\ s[6] = "W" /\ AllDigits(s, 7, 8)
              /\ WeekOk(y, ParseDigits(s, 7, 2))
              /\ Len(s) = 10 => (s[9] = "-" /\ s[10] \in {"1", "2", "3", "4", "5", "6", "7"})
           \/ /\ Len(s) \in {7, 8} /\ s[5] = "W" /\ AllDigits(s, 6, 7)
              /\ WeekOk(y, ParseDigits(s, 6, 2))
              /\ Len(s) = 8 => s[8] \in {"1", "2", "3", "4", "5", "6", "7"}
           \/ /\ Len(s) = 8 /\ s[5] = "-" /\ AllDigits(s, 6, 8)
              /\ OrdinalOk(y, ParseDigits(s, 6, 3))
           \/ /\ Len(s) = 7 /\ AllDigits(s, 5, 7)
              /\ OrdinalOk(y, ParseDigits(s, 5, 3))

\* a str that is no ISO 8601 date
Malformed(x) == IsStr(x) /\ ~IsIso8601Date(x.chars)

SomeMalformedField == \E i \in 1..Len(DateFields) : Malformed(DateFields[i])

----------------------------------------------------------------------------
(* C1: _as_date_attr of a string that is no valid ISO date raises and      *)
(* returns nothing, and so does a builder call that has such a string in   *)
(* value, start, end, min or max: no markup tree is returned.              *)
C1_MalformedRaises ==
    /\ (call.op = "as_date_attr" /\ Malformed(call.x))
          => (outcome = "ValueError" /\ result = NoResult)
    /\ (IsBuilderCall /\ SomeMalformedField)
          => (outcome = "ValueError" /\ result = NoResult)

(* C2, as stated: for every valid ISO date string s, _as_date_attr(s) = s  *)
(* and _as_date_attr(date.fromisoformat(s)) = s.                           *)
C2_EveryIsoStringIsFixed ==
    (call.op = "as_date_attr" /\ IsStr(call.x) /\ IsIso8601Date(call.x.chars))
        => /\ outcome = "ok"
           /\ result = call.x
           /\ as_date_attr(date_fromisoformat(call.x)) = call.x

(* C2, amended: for every string s in the canonical form yyyy-mm-dd,       *)
(* _as_date_attr(s) = s and _as_date_attr(date.fromisoformat(s)) = s; of   *)
(* any other string it accepts, _as_date_attr returns the canonical form,  *)
(* on which it is the identity.                                            *)
C2_CanonicalIsFixed ==
    /\ (call.op = "as_date_attr" /\ IsStr(call.x) /\ IsCanonicalDate(call.x.chars))
          => /\ outcome = "ok"
             /\ result = call.x
             /\ as_date_attr(date_fromisoformat(call.x)) = call.x
    /\ (call.op = "as_date_attr" /\ IsStr(call.x) /\ outcome = "ok")
          => /\ IsCanonicalDate(result.chars)
             /\ as_date_attr(result) = result

C2_Witness ==
    /\ call.op = "as_date_attr" /\ IsStr(call.x) /\ IsCanonicalDate(call.x.chars)
    /\ outcome = "ok"
    /\ call.x.chars[1] = "0"

\* the attribute is the canonical string of the date that v is, or is read as
SameDate(attr, v) ==
    /\ IsStr(attr)
    /\ IsCanonicalDate(attr.chars)
    /\ FromIsoStrict(attr.chars) = (IF IsDate(v) THEN v ELSE date_fromisoformat(v))

\* what the restore context holds for the id of the call
Saved == restoreCtx[resolve_id(call.id)]

C4_RangeRestoredInOrder ==
    call.op = "input_date_range" =>
        /\ restoreLog =
             << [id |-> resolve_id(call.id),
                 default |-> List(<<IF IsNone(call.start) THEN today ELSE call.start,
                                    IF IsNone(call.end) THEN today ELSE call.end>>)] >>
        /\ (outcome = "ok" /\ IsList(Saved)) =>
              /\ SameDate(InputsOf(result)[1].attrs["data-initial-date"], Saved.items[1])
              /\ SameDate(InputsOf(result)[2].attrs["data-initial-date"], Saved.items[2])

C4_Witness ==
    /\ call.op = "input_date_range" /\ outcome = "ok"
    /\ IsList(Saved)
    /\ IsDate(Saved.items[1]) /\ IsStr(Saved.items[2])
    /\ IsDate(call.start) /\ IsStr(call.end)
    /\ InputsOf(result)[1].attrs["data-initial-date"]
         # InputsOf(result)[2].attrs["data-initial-date"]

\* a JSON text without the spaces that stand outside its strings
RECURSIVE StripSpaces(_, _, _)
StripSpaces(s, inString, escaped) ==
    IF s = <<>> THEN <<>>
    ELSE LET c == Head(s)
         IN  IF inString
             THEN <<c>> \o StripSpaces(Tail(s), escaped \/ c # "\"", ~escaped /\ c = "\\")
             ELSE IF c = " " THEN StripSpaces(Tail(s), FALSE, FALSE)
             ELSE <<c>> \o StripSpaces(Tail(s), c = "\"", FALSE)

RECURSIVE CommaJoined(_)
CommaJoined(items) ==
    IF items = <<>> THEN <<>>
    ELSE (IF items[1].kind = "int" THEN IntStr(items[1].val)
          ELSE <<"\"">> \o JsonEscape(items[1].chars) \o <<"\"">>)
         \o (IF Len(items) > 1 THEN <<",">> ELSE <<>>) \o CommaJoined(Tail(items))

\* the JSON array of a list, as in [0,6]
JsonArray(l) == <<"[">> \o CommaJoined(l.items) \o <<"]">>

IsJsonOf(attr, l) ==
    /\ IsStr(attr)
    /\ IF IsNone(l) THEN attr.chars = <<"n", "u", "l", "l">>
       ELSE StripSpaces(attr.chars, FALSE, FALSE) = JsonArray(l)

Parses(x) == IsNone(x) \/ IsDate(x) \/ (IsStr(x) /\ ~Raised(date_fromisoformat(x)))

\* the dates a call normalizes: min, max and what restore_input gave back
NormalizedFields ==
    <<call.min, call.max>> \o (IF IsList(Restored) THEN Restored.items ELSE <<Restored>>)

(* C6, as stated: a builder call whose date arguments are all absent or    *)
(* valid returns a markup tree and raises nothing, whatever the other      *)
(* arguments are.                                                          *)
C6_ValidArgumentsSucceed ==
    (IsBuilderCall /\ ~SomeMalformedField) => outcome = "ok"

(* C6, amended: a builder call raises exactly when min, max or a value     *)
(* that restore_input gave back (the saved value, else value, start or end *)
(* or today) is a string that date.fromisoformat rejects; no other         *)
(* argument, an entry of datesdisabled included, makes it raise.           *)
C6_OnlyRejectedDatesRaise ==
    IsBuilderCall =>
        (outcome = "ok" <=> \A i \in 1..Len(NormalizedFields) : Parses(NormalizedFields[i]))

C6_Witness ==
    /\ call.op = "input_date" /\ outcome = "ok"
    /\ IsList(call.datesdisabled)
    /\ \E i \in 1..Len(call.datesdisabled.items) :
          Raised(FromIsoAny(call.datesdisabled.items[i].chars))

(* C7: _as_date_attr(None) is None; an input element carries data-min-date *)
(* (data-max-date) exactly when min (max) is given, and then it is the     *)
(* canonical yyyy-mm-dd string of that date: an absent min or max is never *)
(* written as null.                                                        *)
C7_AbsentMinMaxOmitted ==
    /\ (call.op = "as_date_attr" /\ IsNone(call.x)) => (outcome = "ok" /\ result = None)
    /\ (IsBuilderCall /\ outcome = "ok") =>
          \A i \in 1..Len(InputsOf(result)) :
              LET input == InputsOf(result)[i]
              IN  /\ HasAttr(input, "data-min-date") <=> ~IsNone(call.min)
                  /\ HasAttr(input, "data-max-date") <=> ~IsNone(call.max)
                  /\ ~IsNone(call.min) => SameDate(input.attrs["data-min-date"], call.min)
                  /\ ~IsNone(call.max) => SameDate(input.attrs["data-max-date"], call.max)

C7_Witness ==
    /\ call.op = "input_date_range" /\ outcome = "ok"
    /\ IsNone(call.max) /\ IsDate(call.min)
    /\ ~HasAttr(InputsOf(result)[2], "data-max-date")
    /\ InputsOf(result)[2].attrs["data-min-date"]
         = Str(<<"0", "9", "9", "9", "-", "0", "1", "-", "0", "5">>)

Without(f, n) == [m \in (DOMAIN f) \ {n} |-> f[m]]

(* C8: every input element carries the configuration as given: format,     *)
(* language, startview, weekstart, the title "Date format: " + format,     *)
(* aria-labelledby = resolved id + "-label", and data-date-autoclose       *)
(* "true" or "false"; the two inputs of a range differ in                  *)
(* data-initial-date at most.                                              *)
C8_ConfigurationVerbatim ==
    (IsBuilderCall /\ outcome = "ok") =>
        /\ \A i \in 1..Len(InputsOf(result)) :
              LET attrs == InputsOf(result)[i].attrs
              IN  /\ attrs["data-date-format"] = Text(call.format)
                  /\ attrs["data-date-language"] = Text(call.language)
                  /\ attrs["data-date-start-view"] = Text(call.startview)
                  /\ attrs["data-date-week-start"] = Text(ToString(call.weekstart))
                  /\ attrs["title"] = Text("Date format: " \o call.format)
                  /\ attrs["aria-labelledby"] = Text(resolve_id(call.id) \o "-label")
                  /\ attrs["data-date-autoclose"].text \in {"true", "false"}
                  /\ attrs["data-date-autoclose"].text = "true" <=> call.autoclose
        /\ call.op = "input_date_range" =>
              Without(InputsOf(result)[1].attrs, "data-initial-date")
                = Without(InputsOf(result)[2].attrs, "data-initial-date")

C8_Witness ==
    /\ call.op = "input_date_range" /\ outcome = "ok"
    /\ ~call.autoclose
    /\ ns = "mod"
    /\ InputsOf(result)[1].attrs["data-initial-date"]
         # InputsOf(result)[2].attrs["data-initial-date"]

(* C9: a successful input_date call asks for the date-picker assets once   *)
(* and a successful input_date_range call twice, and every input element   *)
(* holds the fragment, also when the assets were declared before.          *)
C9_AssetsInEveryInput ==
    (IsBuilderCall /\ outcome = "ok") =>
        /\ depsCalls = Len(InputsOf(result))
        /\ depsCalls = (IF call.op = "input_date" THEN 1 ELSE 2)
        /\ \A i \in 1..Len(InputsOf(result)) :
              InputsOf(result)[i].children = <<datepicker_deps>>

C9_Witness ==
    /\ call.op = "input_date_range" /\ outcome = "ok"
    /\ depsCalls = 2
    /\ InputsOf(result)[1].children = <<datepicker_deps>>
    /\ InputsOf(result)[2].children = <<datepicker_deps>>

\* the restore contexts: nothing saved, or one value saved
Contexts ==
    {[k \in Keys |-> NotAvailable]}
    \cup {[k \in Keys |-> IF k = key THEN v ELSE NotAvailable] :
            key \in Keys, v \in SavedValues \cup SavedRanges}

\* the call made again in another restore context
CallIn(ctx) ==
    IF call.op = "input_date" THEN input_date_call(call, ctx).result
    ELSE input_date_range_call(call, ctx).result

\* a markup tree without the data-initial-date of its inputs
WithoutInitialDate(r) ==
    IF call.op = "input_date"
    THEN [r EXCEPT !.children[2].attrs = Without(@, "data-initial-date")]
    ELSE [r EXCEPT !.children[2].children[1].attrs = Without(@, "data-initial-date"),
                   !.children[2].children[3].attrs = Without(@, "data-initial-date")]

(* C10, the frame: the same call in any two restore contexts returns       *)
(* markup trees that differ in data-initial-date at most.                  *)
C10_OnlyInitialDateRestored ==
    (IsBuilderCall /\ outcome = "ok") =>
        \A ctx \in Contexts :
            CallIn(ctx).kind = "tag" =>
                WithoutInitialDate(CallIn(ctx)) = WithoutInitialDate(result)

\* the call was given a saved value by restore_input
WasRestored ==
    /\ Saved.kind # "NotAvailable"
    /\ SameShape(Saved, restoreLog[1].default)

RestoredMalformed ==
    /\ WasRestored
    /\ \E i \in 1..Len(NormalizedFields) : i > 2 /\ Malformed(NormalizedFields[i])

(* C10: what restore_input gives back changes data-initial-date only, and  *)
(* a restored string that is no ISO date makes the call raise.             *)
C10_RestoreFrame ==
    IsBuilderCall =>
        /\ RestoredMalformed => outcome = "ValueError"
        /\ C10_OnlyInitialDateRestored

====
